---- MODULE Spec2Model ----
(***************************************************************************)
(* Kelly Criterion calculator (src/main.rs): the two engine functions,     *)
(* the validation done by the interactive loops, the argument dispatch of  *)
(* main and the classification done by the printing functions.             *)
(*                                                                         *)
(* Numbers.  An f64 is modelled as a record [n, d]: d > 0 is the exact     *)
(* rational n/d in lowest terms, d = 0 is one of the three IEEE-754        *)
(* specials (n = 1: +inf, n = -1: -inf, n = 0: NaN).  The operators below  *)
(* follow IEEE-754 for the specials (x/0, inf-inf, 0*inf, comparisons with *)
(* NaN); rounding of finite results is not modelled, and zero is always    *)
(* +0 (the inputs drawn below never produce a negative zero).              *)
(*                                                                         *)
(* Text.  A string is a sequence of one-character strings, so that trim,   *)
(* to_lowercase and parse are computed on the characters.                  *)
(***************************************************************************)
EXTENDS Integers, Sequences, FiniteSets, TLC

VARIABLES pc, args, lang, mode, reads, x, y, last, call, result, out

vars == <<pc, args, lang, mode, reads, x, y, last, call, result, out>>

(***************************************************************************)
(* Bounds of the model.                                                    *)
(***************************************************************************)
\* lines read from standard input in one interactive session
MaxReads == 4
\* numerators and denominators of the inputs given to the engine directly
MaxNum == 7
MaxDen == 10

(***************************************************************************)
(* f64 values.                                                             *)
(***************************************************************************)
Abs(i) == IF i < 0 THEN -i ELSE i

Sign(i) == IF i < 0 THEN -1 ELSE IF i > 0 THEN 1 ELSE 0

RECURSIVE GCD(_, _)
GCD(a, b) == IF b = 0 THEN a ELSE GCD(b, a % b)

\* the finite value n/d (d # 0), in lowest terms with a positive denominator
Fin(n, d) ==
    LET g == GCD(Abs(n), Abs(d))
    IN  [n |-> (Sign(d) * n) \div g, d |-> Abs(d) \div g]

NaN == [n |-> 0, d |-> 0]

Inf(s) == [n |-> s, d |-> 0]

Zero == [n |-> 0, d |-> 1]

One == [n |-> 1, d |-> 1]

Hundred == [n |-> 100, d |-> 1]

Half == [n |-> 1, d |-> 2]

Quarter == [n |-> 1, d |-> 4]

IsNaN(a) == a.d = 0 /\ a.n = 0

IsInf(a) == a.d = 0 /\ a.n # 0

IsFinite(a) == a.d > 0

Neg(a) == [n |-> -a.n, d |-> a.d]

\* a + b
Add(a, b) ==
    IF IsNaN(a) \/ IsNaN(b) THEN NaN
    ELSE IF IsInf(a) /\ IsInf(b) THEN (IF a.n = b.n THEN a ELSE NaN)
    ELSE IF IsInf(a) THEN a
    ELSE IF IsInf(b) THEN b
    ELSE Fin(a.n * b.d + b.n * a.d, a.d * b.d)

\* a - b
Sub(a, b) == Add(a, Neg(b))

\* a * b
Mul(a, b) ==
    IF IsNaN(a) \/ IsNaN(b) THEN NaN
    ELSE IF IsInf(a) \/ IsInf(b)
         THEN (IF a.n = 0 \/ b.n = 0 THEN NaN ELSE Inf(Sign(a.n) * Sign(b.n)))
    ELSE Fin(a.n * b.n, a.d * b.d)

\* a / b
Div(a, b) ==
    IF IsNaN(a) \/ IsNaN(b) THEN NaN
    ELSE IF IsInf(a) /\ IsInf(b) THEN NaN
    ELSE IF IsInf(a) THEN Inf(IF b.n < 0 THEN -a.n ELSE a.n)
    ELSE IF IsInf(b) THEN Zero
    ELSE IF b.n = 0 THEN (IF a.n = 0 THEN NaN ELSE Inf(Sign(a.n)))
    ELSE Fin(a.n * b.d, a.d * b.n)

\* a > b; false when either side is NaN
Gt(a, b) ==
    IF IsNaN(a) \/ IsNaN(b) THEN FALSE
    ELSE IF IsInf(a) /\ IsInf(b) THEN a.n > b.n
    ELSE a.n * b.d > b.n * a.d

\* a == b; false when either side is NaN
Eq(a, b) == ~IsNaN(a) /\ ~IsNaN(b) /\ a = b

Ge(a, b) == Gt(a, b) \/ Eq(a, b)

Le(a, b) == Ge(b, a)

Lt(a, b) == Gt(b, a)

(***************************************************************************)
(* Text.                                                                   *)
(***************************************************************************)
Digits == <<"0", "1", "2", "3", "4", "5", "6", "7", "8", "9">>

IsDigit(c) == \E i \in 1..10 : Digits[i] = c

DigitVal(c) == (CHOOSE i \in 1..10 : Digits[i] = c) - 1

IsWhitespace(c) == c \in {" ", "\n", "\t", "\r"}

Upper == <<"Q", "I", "N", "F", "A", "T", "Y">>

Lower == <<"q", "i", "n", "f", "a", "t", "y">>

LowerChar(c) ==
    IF \E i \in 1..Len(Upper) : Upper[i] = c
    THEN Lower[CHOOSE i \in 1..Len(Upper) : Upper[i] = c]
    ELSE c

\* str::to_lowercase
to_lowercase(s) == [i \in 1..Len(s) |-> LowerChar(s[i])]

RECURSIVE trim_start(_)
trim_start(s) ==
    IF s # <<>> /\ IsWhitespace(Head(s)) THEN trim_start(Tail(s)) ELSE s

RECURSIVE trim_end(_)
trim_end(s) ==
    IF s # <<>> /\ IsWhitespace(s[Len(s)])
    THEN trim_end(SubSeq(s, 1, Len(s) - 1))
    ELSE s

\* str::trim
trim(s) == trim_end(trim_start(s))

RECURSIVE Pow10(_)
Pow10(k) == IF k = 0 THEN 1 ELSE 10 * Pow10(k - 1)

RECURSIVE DigitsToInt(_)
DigitsToInt(s) ==
    IF s = <<>> THEN 0
    ELSE 10 * DigitsToInt(SubSeq(s, 1, Len(s) - 1)) + DigitVal(s[Len(s)])

Err == [ok |-> FALSE, v |-> NaN]

Ok(v) == [ok |-> TRUE, v |-> v]

\* str::parse::<f64> on the unsigned part: inf, infinity, nan in any case,
\* or decimal digits with at most one point and at least one digit
ParseUnsigned(s) ==
    LET l == to_lowercase(s)
        dots == {i \in 1..Len(s) : s[i] = "."}
        p == IF dots = {} THEN Len(s) + 1 ELSE CHOOSE i \in dots : TRUE
        ip == SubSeq(s, 1, p - 1)
        fp == SubSeq(s, p + 1, Len(s))
    IN  IF l = <<"i", "n", "f">> \/ l = <<"i", "n", "f", "i", "n", "i", "t", "y">>
        THEN Ok(Inf(1))
        ELSE IF l = <<"n", "a", "n">> THEN Ok(NaN)
        ELSE IF /\ Cardinality(dots) <= 1
                /\ Len(ip) + Len(fp) >= 1
                /\ \A i \in 1..Len(ip) : IsDigit(ip[i])
                /\ \A i \in 1..Len(fp) : IsDigit(fp[i])
        THEN Ok(Fin(DigitsToInt(ip \o fp), Pow10(Len(fp))))
        ELSE Err

\* str::parse::<f64>: an optional sign, then the unsigned part; no trimming
parse(s) ==
    IF s = <<>> THEN Err
    ELSE IF Head(s) = "-"
         THEN (LET r == ParseUnsigned(Tail(s))
               IN  IF r.ok THEN Ok(Neg(r.v)) ELSE Err)
    ELSE IF Head(s) = "+" THEN ParseUnsigned(Tail(s))
    ELSE ParseUnsigned(s)

(***************************************************************************)
(* KellyEngine.                                                            *)
(***************************************************************************)
\* kelly_criterion with positive_ev taken as expected_value >= 0
kelly_criterion_ge(odds, win_rate) ==
    LET b == Sub(odds, One)
        p == win_rate
        q == Sub(One, p)
        optimal_fraction == Div(Sub(Mul(b, p), q), b)
        expected_value == Sub(Mul(p, b), q)
    IN  [optimal_fraction |-> optimal_fraction,
         positive_ev |-> Ge(expected_value, Zero),
         expected_value |-> expected_value]

\* kelly_criterion with the gross odds used as b
kelly_criterion_gross(odds, win_rate) ==
    LET b == odds
        p == win_rate
        q == Sub(One, p)
        optimal_fraction == Div(Sub(Mul(b, p), q), b)
        expected_value == Sub(Mul(p, b), q)
    IN  [optimal_fraction |-> optimal_fraction,
         positive_ev |-> Gt(expected_value, Zero),
         expected_value |-> expected_value]

\* kelly_criterion with a negative fraction clamped to zero
kelly_criterion_clamped(odds, win_rate) ==
    LET b == Sub(odds, One)
        p == win_rate
        q == Sub(One, p)
        optimal_fraction == Div(Sub(Mul(b, p), q), b)
        expected_value == Sub(Mul(p, b), q)
    IN  [optimal_fraction |-> IF Lt(optimal_fraction, Zero) THEN Zero ELSE optimal_fraction,
         positive_ev |-> Gt(expected_value, Zero),
         expected_value |-> expected_value]

kelly_criterion(odds, win_rate) ==
    LET b == Sub(odds, One)
        p == win_rate
        q == Sub(One, p)
        optimal_fraction == Div(Sub(Mul(b, p), q), b)
        expected_value == Sub(Mul(p, b), q)
    IN  [optimal_fraction |-> optimal_fraction,
         positive_ev |-> Gt(expected_value, Zero),
         expected_value |-> expected_value]

kelly_polymarket(market_price, your_probability) ==
    LET p_market == market_price
        p_your == your_probability
        b == Div(Sub(One, p_market), p_market)
        q == Sub(One, p_your)
        optimal_fraction == Div(Sub(Mul(b, p_your), q), b)
        expected_value == Sub(Mul(p_your, b), q)
    IN  [optimal_fraction |-> optimal_fraction,
         positive_ev |-> Gt(expected_value, Zero),
         expected_value |-> expected_value]

NoResult == [optimal_fraction |-> Zero, positive_ev |-> FALSE, expected_value |-> Zero]

(***************************************************************************)
(* Display.  Option<f64> is [some, v]; what print_result writes is kept as *)
(* the lines it chooses (the same choice in both languages) and the values *)
(* it puts in them.                                                        *)
(***************************************************************************)
None == [some |-> FALSE, v |-> Zero]

Some(v) == [some |-> TRUE, v |-> v]

NoDisplay ==
    [printed |-> FALSE, status |-> "", position |-> "", section |-> "",
     cap |-> Zero, full |-> Zero, half |-> Zero, quarter |-> Zero]

print_result(odds, win_rate, res, capital, lg) ==
    [printed |-> TRUE,
     status |-> IF res.positive_ev THEN "Positive EV (Bet recommended)"
                ELSE "Negative EV (Not recommended)",
     position |-> IF Le(res.optimal_fraction, Zero) THEN "0% (No bet)"
                  ELSE IF Gt(res.optimal_fraction, One) THEN "100%+"
                  ELSE "format_pct",
     section |-> IF ~capital.some THEN ""
                 ELSE IF Gt(res.optimal_fraction, Zero) THEN "Full/Half/Quarter Kelly"
                 ELSE "Recommendation: No bet",
     cap |-> IF capital.some THEN capital.v ELSE Zero,
     full |-> IF capital.some /\ Gt(res.optimal_fraction, Zero)
              THEN Mul(capital.v, res.optimal_fraction) ELSE Zero,
     half |-> IF capital.some /\ Gt(res.optimal_fraction, Zero)
              THEN Mul(Mul(capital.v, res.optimal_fraction), Half) ELSE Zero,
     quarter |-> IF capital.some /\ Gt(res.optimal_fraction, Zero)
                 THEN Mul(Mul(capital.v, res.optimal_fraction), Quarter) ELSE Zero]

print_result_polymarket(market_price, your_probability, res, capital, lg) ==
    [printed |-> TRUE,
     status |-> IF res.positive_ev THEN "Positive EV (Bet recommended)"
                ELSE "Negative EV (Not recommended)",
     position |-> IF Le(res.optimal_fraction, Zero) THEN "0% (No bet)"
                  ELSE IF Gt(res.optimal_fraction, One) THEN "100%+"
                  ELSE "format_pct",
     section |-> IF ~capital.some THEN ""
                 ELSE IF Gt(res.optimal_fraction, Zero) THEN "Full/Half/Quarter Kelly"
                 ELSE "Recommendation: No bet",
     cap |-> IF capital.some THEN capital.v ELSE Zero,
     full |-> IF capital.some /\ Gt(res.optimal_fraction, Zero)
              THEN Mul(capital.v, res.optimal_fraction) ELSE Zero,
     half |-> IF capital.some /\ Gt(res.optimal_fraction, Zero)
              THEN Mul(Mul(capital.v, res.optimal_fraction), Half) ELSE Zero,
     quarter |-> IF capital.some /\ Gt(res.optimal_fraction, Zero)
                 THEN Mul(Mul(capital.v, res.optimal_fraction), Quarter) ELSE Zero]

\* the engine call a step made, if any
NoCall == [fn |-> "", a |-> Zero, b |-> Zero]

\* the line a step read from standard input, if any
NoRead == [field |-> "", line |-> <<>>]

\* what a step wrote: one message (the name the source gives it, or its
\* literal text) and the result block
Out(msg, display) == [msg |-> msg, display |-> display]

(***************************************************************************)
(* Inputs: the argument vectors and the lines of standard input the model  *)
(* draws from.  No text drawn here uses exponent notation, which parse     *)
(* above does not cover.                                                   *)
(***************************************************************************)
kelly == <<"k", "e", "l", "l", "y">>
flag_p == <<"-", "p">>
flag_z == <<"-", "z">>
flag_zh == <<"-", "-", "z", "h">>
flag_h == <<"-", "h">>
flag_help == <<"-", "-", "h", "e", "l", "p">>
t_abc == <<"a", "b", "c">>
t_q == <<"q">>
t_inf == <<"i", "n", "f">>
t_nan == <<"N", "a", "N">>
t_0 == <<"0">>
t_1_0 == <<"1", ".", "0">>
t_1_5 == <<"1", ".", "5">>
t_2_0 == <<"2", ".", "0">>
t_4 == <<"4">>
t_10 == <<"1", "0">>
t_25 == <<"2", "5">>
t_50 == <<"5", "0">>
t_60 == <<"6", "0">>
t_75 == <<"7", "5">>
t_100 == <<"1", "0", "0">>
t_150 == <<"1", "5", "0">>
t_1000 == <<"1", "0", "0", "0">>
t_m100 == <<"-", "1", "0", "0">>

\* std::env::args(): the first element is whatever the caller passed as
\* argv[0], usually the program's name
ArgvSet ==
    { <<kelly>>, <<kelly, flag_z>>, <<kelly, flag_zh>>,
      <<kelly, flag_h>>, <<kelly, flag_help>>, <<kelly, t_2_0>>,
      <<kelly, t_2_0, t_60>>, <<kelly, flag_z, t_2_0, t_60>>,
      <<kelly, t_2_0, t_60, flag_zh>>, <<kelly, t_2_0, t_60, t_1000>>,
      <<kelly, t_2_0, t_50>>, <<kelly, t_4, t_25>>, <<kelly, t_1_5, t_10>>,
      <<kelly, t_1_5, t_10, t_1000>>, <<kelly, t_1_5, t_100, t_1000>>,
      <<kelly, t_1_0, t_50>>, <<kelly, t_2_0, t_150>>,
      <<kelly, t_0, t_50, t_1000>>,
      <<kelly, t_inf, t_50>>, <<kelly, t_2_0, t_60, t_m100>>,
      <<kelly, t_abc, t_60>>, <<kelly, t_2_0, t_abc>>,
      <<kelly, t_2_0, t_60, t_abc>>,
      <<kelly, t_2_0, t_60, t_1000, t_4>>, <<flag_z>>,
      <<kelly, flag_p>>, <<kelly, flag_z, flag_p>>,
      <<kelly, flag_p, t_60>>, <<kelly, flag_p, t_60, t_75>>,
      <<kelly, flag_p, t_60, t_75, t_1000>>,
      <<kelly, flag_p, flag_zh, t_60, t_75>>,
      <<flag_p>>, <<flag_p, flag_z>>,
      <<t_60, flag_p, t_75>>, <<t_60, flag_p, t_75, t_1000>>,
      <<t_60, flag_p, t_50, flag_z>>,
      <<t_100, flag_p, t_50>>, <<t_100, flag_p, t_100>>,
      <<t_60, flag_p, t_abc>>, <<t_60, flag_p, t_75, t_abc>> }

\* what read_line leaves in the buffer: a line with its newline, or nothing
\* at end of input
Line(s) == s \o <<"\n">>

EndOfInput == <<>>

Lines ==
    { EndOfInput, Line(<<>>), Line(t_q), Line(<<" ", "Q", " ">>),
      Line(t_abc), Line(t_inf), Line(t_nan),
      Line(t_0), Line(t_1_0), Line(t_1_5), Line(t_2_0), Line(t_4),
      Line(t_10), Line(t_25), Line(t_50), Line(t_60), Line(t_75),
      Line(t_100), Line(t_150), Line(t_1000), Line(t_m100),
      <<" ">> \o Line(t_60) }

\* the values given directly to cli_mode and cli_mode_polymarket
Values ==
    {Fin(n, d) : n \in -1..MaxNum, d \in 1..MaxDen} \cup {NaN, Inf(1), Inf(-1)}

Capitals == {None, Some(Fin(1000, 1)), Some(Fin(-100, 1)), Some(Zero)}

(***************************************************************************)
(* main: language flag, mode flag, dispatch on the number of arguments.    *)
(***************************************************************************)
has_zh_flag(a) == \E i \in 1..Len(a) : a[i] = flag_z \/ a[i] = flag_zh

Language(a) == IF has_zh_flag(a) THEN "Chinese" ELSE "English"

is_polymarket(a) == \E i \in 1..Len(a) : a[i] = flag_p

NotPmFlag(s) == s # flag_p /\ s # flag_z /\ s # flag_zh

NotLangFlag(s) == s # flag_z /\ s # flag_zh

pm_args(a) == SelectSeq(a, NotPmFlag)

filtered_args(a) == SelectSeq(a, NotLangFlag)

\* capital argument of the one-shot forms: absent, or parsed without a check
CliCapital(a, i) == IF Len(a) >= i THEN Some(parse(a[i]).v) ELSE None

\* cli_mode: engine, then print_result
cli_mode(odds, win_rate, capital, lg) ==
    /\ call' = [fn |-> "kelly_criterion", a |-> odds, b |-> win_rate]
    /\ result' = kelly_criterion(odds, win_rate)
    /\ out' = Out("", print_result(odds, win_rate, kelly_criterion(odds, win_rate), capital, lg))

\* cli_mode_polymarket: engine, then print_result_polymarket
cli_mode_polymarket(market_price, your_probability, capital, lg) ==
    /\ call' = [fn |-> "kelly_polymarket", a |-> market_price, b |-> your_probability]
    /\ result' = kelly_polymarket(market_price, your_probability)
    /\ out' = Out("", print_result_polymarket(market_price, your_probability,
                          kelly_polymarket(market_price, your_probability), capital, lg))

\* a step that does not reach the engine
Idle ==
    /\ call' = NoCall
    /\ result' = NoResult

Init ==
    /\ pc = "main"
    /\ args \in ArgvSet
    /\ lang = "English"
    /\ mode = ""
    /\ reads = 0
    /\ x = Zero
    /\ y = Zero
    /\ last = NoRead
    /\ call = NoCall
    /\ result = NoResult
    /\ out = Out("", NoDisplay)

\* kelly -p with nothing else after filtering: interactive_polymarket
MainPolymarketInteractive ==
    /\ pc = "main"
    /\ is_polymarket(args)
    /\ Len(pm_args(args)) = 0
    /\ lang' = Language(args)
    /\ mode' = "interactive_polymarket"
    /\ pc' = "price"
    /\ Idle
    /\ UNCHANGED <<args, reads, x, y, last, out>>

\* Polymarket one-shot, two or three remaining arguments that all parse
MainPolymarketCli ==
    /\ pc = "main"
    /\ is_polymarket(args)
    /\ Len(pm_args(args)) \in {2, 3}
    /\ \A i \in 1..Len(pm_args(args)) : parse(pm_args(args)[i]).ok
    /\ lang' = Language(args)
    /\ mode' = "cli_mode_polymarket"
    /\ pc' = "done"
    /\ cli_mode_polymarket(Div(parse(pm_args(args)[1]).v, Hundred),
                           Div(parse(pm_args(args)[2]).v, Hundred),
                           CliCapital(pm_args(args), 3), Language(args))
    /\ UNCHANGED <<args, reads, x, y, last>>

\* Polymarket one-shot, an argument that does not parse: expect() panics
MainPolymarketPanic ==
    /\ pc = "main"
    /\ is_polymarket(args)
    /\ Len(pm_args(args)) \in {2, 3}
    /\ \E i \in 1..Len(pm_args(args)) : ~parse(pm_args(args)[i]).ok
    /\ lang' = Language(args)
    /\ mode' = "panic"
    /\ pc' = "panicked"
    /\ out' = Out(IF ~parse(pm_args(args)[1]).ok THEN "Market price must be a number"
                  ELSE IF ~parse(pm_args(args)[2]).ok THEN "Your probability must be a number"
                  ELSE "Capital must be a number", NoDisplay)
    /\ Idle
    /\ UNCHANGED <<args, reads, x, y, last>>

\* Polymarket, any other number of remaining arguments
MainPolymarketInvalid ==
    /\ pc = "main"
    /\ is_polymarket(args)
    /\ Len(pm_args(args)) \notin {0, 2, 3}
    /\ lang' = Language(args)
    /\ mode' = "invalid_polymarket"
    /\ pc' = "done"
    /\ out' = Out("Invalid Polymarket mode arguments", NoDisplay)
    /\ Idle
    /\ UNCHANGED <<args, reads, x, y, last>>

\* no -p, one argument left after the language flag is removed: interactive
MainInteractive ==
    /\ pc = "main"
    /\ ~is_polymarket(args)
    /\ Len(filtered_args(args)) = 1
    /\ lang' = Language(args)
    /\ mode' = "interactive"
    /\ pc' = "odds"
    /\ Idle
    /\ UNCHANGED <<args, reads, x, y, last, out>>

\* two arguments left: help, or "Insufficient arguments" and the usage
MainUsage ==
    /\ pc = "main"
    /\ ~is_polymarket(args)
    /\ Len(filtered_args(args)) = 2
    /\ lang' = Language(args)
    /\ mode' = "print_usage"
    /\ pc' = "done"
    /\ out' = Out(IF filtered_args(args)[2] = flag_h \/ filtered_args(args)[2] = flag_help
                  THEN "" ELSE "Insufficient arguments", NoDisplay)
    /\ Idle
    /\ UNCHANGED <<args, reads, x, y, last>>

\* fixed-odds one-shot, three or four arguments left that all parse
MainCli ==
    /\ pc = "main"
    /\ ~is_polymarket(args)
    /\ Len(filtered_args(args)) \in {3, 4}
    /\ \A i \in 2..Len(filtered_args(args)) : parse(filtered_args(args)[i]).ok
    /\ lang' = Language(args)
    /\ mode' = "cli_mode"
    /\ pc' = "done"
    /\ cli_mode(parse(filtered_args(args)[2]).v,
                Div(parse(filtered_args(args)[3]).v, Hundred),
                CliCapital(filtered_args(args), 4), Language(args))
    /\ UNCHANGED <<args, reads, x, y, last>>

\* fixed-odds one-shot, an argument that does not parse: expect() panics
MainCliPanic ==
    /\ pc = "main"
    /\ ~is_polymarket(args)
    /\ Len(filtered_args(args)) \in {3, 4}
    /\ \E i \in 2..Len(filtered_args(args)) : ~parse(filtered_args(args)[i]).ok
    /\ lang' = Language(args)
    /\ mode' = "panic"
    /\ pc' = "panicked"
    /\ out' = Out(IF ~parse(filtered_args(args)[2]).ok THEN "Odds must be a number"
                  ELSE IF ~parse(filtered_args(args)[3]).ok THEN "Win rate must be a number"
                  ELSE "Capital must be a number", NoDisplay)
    /\ Idle
    /\ UNCHANGED <<args, reads, x, y, last>>

\* any other number of arguments left (none, or five and more)
MainTooMany ==
    /\ pc = "main"
    /\ ~is_polymarket(args)
    /\ Len(filtered_args(args)) \notin {1, 2, 3, 4}
    /\ lang' = Language(args)
    /\ mode' = "too_many"
    /\ pc' = "done"
    /\ out' = Out("Too many arguments", NoDisplay)
    /\ Idle
    /\ UNCHANGED <<args, reads, x, y, last>>

(***************************************************************************)
(* interactive: one action per read_line of the loop, each with everything *)
(* the loop does until the next read.                                      *)
(***************************************************************************)
\* the quit test without to_lowercase
is_quit_case_sensitive(input) == trim(input) = <<"q">>

\* the quit test of the first prompt: input.trim().to_lowercase() == "q"
is_quit(input) == to_lowercase(trim(input)) = <<"q">>

\* the capital prompt's value: empty is None, a number > 0 is Some, anything
\* else is reported with msg_cap_error and is None
CapitalOf(line) ==
    IF trim(line) = <<>> THEN None
    ELSE IF parse(trim(line)).ok /\ Gt(parse(trim(line)).v, Zero)
         THEN Some(parse(trim(line)).v)
    ELSE None

CapitalMsg(line) ==
    IF trim(line) = <<>> THEN ""
    ELSE IF parse(trim(line)).ok /\ Gt(parse(trim(line)).v, Zero) THEN ""
    ELSE "msg_cap_error"

\* 'q' at the odds prompt: msg_quit and break
InteractiveQuit ==
    /\ pc = "odds"
    /\ reads < MaxReads
    /\ \E line \in Lines :
        /\ is_quit(line)
        /\ last' = [field |-> "odds", line |-> line]
    /\ reads' = reads + 1
    /\ pc' = "done"
    /\ out' = Out("msg_quit", NoDisplay)
    /\ x' = Zero
    /\ y' = Zero
    /\ Idle
    /\ UNCHANGED <<args, lang, mode>>

\* the odds prompt: a number > 1.0 goes on to the win rate, anything else
\* is reported and the loop continues
InteractiveOdds ==
    /\ pc = "odds"
    /\ reads < MaxReads
    /\ \E line \in Lines :
        /\ ~is_quit(line)
        /\ last' = [field |-> "odds", line |-> line]
        /\ LET r == parse(trim(line))
           IN  IF r.ok /\ Gt(r.v, One)
               THEN /\ x' = r.v
                    /\ pc' = "win_rate"
                    /\ out' = Out("", NoDisplay)
               ELSE /\ x' = Zero
                    /\ pc' = "odds"
                    /\ out' = Out(IF r.ok THEN "msg_odds_error" ELSE "Invalid input", NoDisplay)
    /\ reads' = reads + 1
    /\ y' = Zero
    /\ Idle
    /\ UNCHANGED <<args, lang, mode>>

\* the win-rate prompt: a number in [0, 100] is divided by 100 and goes on
\* to the capital, anything else is reported and the loop continues
InteractiveWinRate ==
    /\ pc = "win_rate"
    /\ reads < MaxReads
    /\ \E line \in Lines :
        /\ last' = [field |-> "win_rate", line |-> line]
        /\ LET r == parse(trim(line))
           IN  IF r.ok /\ Ge(r.v, Zero) /\ Le(r.v, Hundred)
               THEN /\ y' = Div(r.v, Hundred)
                    /\ x' = x
                    /\ pc' = "capital"
                    /\ out' = Out("", NoDisplay)
               ELSE /\ y' = Zero
                    /\ x' = Zero
                    /\ pc' = "odds"
                    /\ out' = Out(IF r.ok THEN "msg_win_error" ELSE "Invalid input", NoDisplay)
    /\ reads' = reads + 1
    /\ Idle
    /\ UNCHANGED <<args, lang, mode>>

\* the capital prompt, then kelly_criterion and print_result
InteractiveCapital ==
    /\ pc = "capital"
    /\ reads < MaxReads
    /\ \E line \in Lines :
        /\ last' = [field |-> "capital", line |-> line]
        /\ call' = [fn |-> "kelly_criterion", a |-> x, b |-> y]
        /\ result' = kelly_criterion(x, y)
        /\ out' = Out(CapitalMsg(line),
                      print_result(x, y, kelly_criterion(x, y), CapitalOf(line), lang))
    /\ reads' = reads + 1
    /\ pc' = "odds"
    /\ x' = Zero
    /\ y' = Zero
    /\ UNCHANGED <<args, lang, mode>>

(***************************************************************************)
(* interactive_polymarket.                                                 *)
(***************************************************************************)
\* 'q' at the price prompt: msg_quit and break
PolymarketQuit ==
    /\ pc = "price"
    /\ reads < MaxReads
    /\ \E line \in Lines :
        /\ is_quit(line)
        /\ last' = [field |-> "price", line |-> line]
    /\ reads' = reads + 1
    /\ pc' = "done"
    /\ out' = Out("msg_quit", NoDisplay)
    /\ x' = Zero
    /\ y' = Zero
    /\ Idle
    /\ UNCHANGED <<args, lang, mode>>

\* the price prompt: a number in (0, 100] is divided by 100 and goes on to
\* the probability, anything else is reported and the loop continues
PolymarketPrice ==
    /\ pc = "price"
    /\ reads < MaxReads
    /\ \E line \in Lines :
        /\ ~is_quit(line)
        /\ last' = [field |-> "price", line |-> line]
        /\ LET r == parse(trim(line))
           IN  IF r.ok /\ Gt(r.v, Zero) /\ Le(r.v, Hundred)
               THEN /\ x' = Div(r.v, Hundred)
                    /\ pc' = "prob"
                    /\ out' = Out("", NoDisplay)
               ELSE /\ x' = Zero
                    /\ pc' = "price"
                    /\ out' = Out(IF r.ok THEN "msg_price_error" ELSE "Invalid input", NoDisplay)
    /\ reads' = reads + 1
    /\ y' = Zero
    /\ Idle
    /\ UNCHANGED <<args, lang, mode>>

\* the probability prompt: a number in [0, 100] is divided by 100 and goes
\* on to the capital, anything else is reported and the loop continues
PolymarketProb ==
    /\ pc = "prob"
    /\ reads < MaxReads
    /\ \E line \in Lines :
        /\ last' = [field |-> "prob", line |-> line]
        /\ LET r == parse(trim(line))
           IN  IF r.ok /\ Ge(r.v, Zero) /\ Le(r.v, Hundred)
               THEN /\ y' = Div(r.v, Hundred)
                    /\ x' = x
                    /\ pc' = "pm_capital"
                    /\ out' = Out("", NoDisplay)
               ELSE /\ y' = Zero
                    /\ x' = Zero
                    /\ pc' = "price"
                    /\ out' = Out(IF r.ok THEN "msg_prob_error" ELSE "Invalid input", NoDisplay)
    /\ reads' = reads + 1
    /\ Idle
    /\ UNCHANGED <<args, lang, mode>>

\* the capital prompt, then kelly_polymarket and print_result_polymarket
PolymarketCapital ==
    /\ pc = "pm_capital"
    /\ reads < MaxReads
    /\ \E line \in Lines :
        /\ last' = [field |-> "capital", line |-> line]
        /\ call' = [fn |-> "kelly_polymarket", a |-> x, b |-> y]
        /\ result' = kelly_polymarket(x, y)
        /\ out' = Out(CapitalMsg(line),
                      print_result_polymarket(x, y, kelly_polymarket(x, y), CapitalOf(line), lang))
    /\ reads' = reads + 1
    /\ pc' = "price"
    /\ x' = Zero
    /\ y' = Zero
    /\ UNCHANGED <<args, lang, mode>>

Next ==
    \/ MainPolymarketInteractive
    \/ MainPolymarketCli
    \/ MainPolymarketPanic
    \/ MainPolymarketInvalid
    \/ MainInteractive
    \/ MainUsage
    \/ MainCli
    \/ MainCliPanic
    \/ MainTooMany
    \/ InteractiveQuit
    \/ InteractiveOdds
    \/ InteractiveWinRate
    \/ InteractiveCapital
    \/ PolymarketQuit
    \/ PolymarketPrice
    \/ PolymarketProb
    \/ PolymarketCapital

Spec == Init /\ [][Next]_vars

(***************************************************************************)
(* The engine and the display on their own: cli_mode and                   *)
(* cli_mode_polymarket applied to values drawn from a grid.                *)
(***************************************************************************)
InitFn ==
    /\ pc = "call"
    /\ args = <<>>
    /\ lang \in {"English", "Chinese"}
    /\ mode = ""
    /\ reads = 0
    /\ x \in Values
    /\ y \in Values
    /\ last = NoRead
    /\ call = NoCall
    /\ result = NoResult
    /\ out = Out("", NoDisplay)

FnCliMode ==
    /\ pc = "call"
    /\ \E capital \in Capitals : cli_mode(x, y, capital, lang)
    /\ mode' = "cli_mode"
    /\ pc' = "returned"
    /\ UNCHANGED <<args, lang, reads, x, y, last>>

FnCliModePolymarket ==
    /\ pc = "call"
    /\ \E capital \in Capitals : cli_mode_polymarket(x, y, capital, lang)
    /\ mode' = "cli_mode_polymarket"
    /\ pc' = "returned"
    /\ UNCHANGED <<args, lang, reads, x, y, last>>

NextFn == FnCliMode \/ FnCliModePolymarket

SpecFn == InitFn /\ [][NextFn]_vars

(***************************************************************************)
(* Properties.                                                             *)
(***************************************************************************)
InUnit(v) == Ge(v, Zero) /\ Le(v, One)

\* C1: whenever the engine is called, validation has run first:
\* kelly_criterion is never called with odds <= 1.0 and kelly_polymarket is
\* never called with market_price <= 0.
C1_ValidatedBeforeEngine ==
    /\ call.fn = "kelly_criterion" => Gt(call.a, One)
    /\ call.fn = "kelly_polymarket" => Gt(call.a, Zero)

\* C2: for every input the validator accepts (odds > 1.0, probabilities in
\* [0,1], market price in (0,1], 1 included) the engine returns a finite
\* optimal_fraction and a finite expected_value.
C2_FiniteOnAcceptedInput ==
    /\ ( /\ call.fn = "kelly_criterion"
         /\ IsFinite(call.a) /\ Gt(call.a, One) /\ InUnit(call.b) )
       => IsFinite(result.optimal_fraction) /\ IsFinite(result.expected_value)
    /\ ( /\ call.fn = "kelly_polymarket"
         /\ Gt(call.a, Zero) /\ Le(call.a, One) /\ InUnit(call.b) )
       => IsFinite(result.optimal_fraction) /\ IsFinite(result.expected_value)

\* C3: the engine is only ever called with a probability in [0,1]: a win
\* rate or probability percentage outside [0,100] is rejected before the
\* engine on every entry path.
C3_ProbabilityInUnitInterval ==
    call.fn # "" => InUnit(call.b)

\* C4: for market_price in (0,1] and your_probability in [0,1],
\* kelly_polymarket(market_price, q) equals kelly_criterion(1/market_price, q)
\* in optimal_fraction, expected_value and positive_ev.
C4_PolymarketEqualsFixedOdds ==
    ( /\ call.fn = "kelly_polymarket"
      /\ Gt(call.a, Zero) /\ Le(call.a, One) /\ InUnit(call.b) )
    => LET r == kelly_criterion(Div(One, call.a), call.b)
       IN  /\ Eq(result.optimal_fraction, r.optimal_fraction)
           /\ Eq(result.expected_value, r.expected_value)
           /\ result.positive_ev = r.positive_ev

\* win_rate*(odds-1) - (1-win_rate) as a fraction of integers, for
\* odds = o.n/o.d and win_rate = w.n/w.d: EvNum(o, w) / (o.d * w.d)
EvNum(o, w) == w.n * (o.n - o.d) - (w.d - w.n) * o.d

\* C5: for all (finite) odds > 1.0 and win_rate in [0,1], kelly_criterion
\* returns expected_value = win_rate*(odds-1) - (1-win_rate) and
\* optimal_fraction = that value divided by (odds-1), and positive_ev is true
\* exactly when expected_value > 0; odds 2.0 and win_rate 0.60 give 0.20 and
\* 0.20.
C5_FixedOddsFormula ==
    ( /\ call.fn = "kelly_criterion"
      /\ IsFinite(call.a) /\ Gt(call.a, One) /\ InUnit(call.b) )
    => /\ IsFinite(result.expected_value)
       /\ result.expected_value.n * (call.a.d * call.b.d)
            = result.expected_value.d * EvNum(call.a, call.b)
       /\ IsFinite(result.optimal_fraction)
       /\ result.optimal_fraction.n * (call.b.d * (call.a.n - call.a.d))
            = result.optimal_fraction.d * EvNum(call.a, call.b)
       /\ result.positive_ev <=> result.expected_value.n > 0
       /\ (call.a = Fin(2, 1) /\ call.b = Fin(3, 5))
            => /\ result.expected_value = Fin(1, 5)
               /\ result.optimal_fraction = Fin(1, 5)

C5_Witness ==
    /\ call = [fn |-> "kelly_criterion", a |-> Fin(2, 1), b |-> Fin(3, 5)]
    /\ result.expected_value = Fin(1, 5)
    /\ result.optimal_fraction = Fin(1, 5)
    /\ result.positive_ev

C7_CapitalSectionOnlyForPositiveCapital ==
    out.display.section # "" => Gt(out.display.cap, Zero)

\* the message each prompt prints for a number outside its domain
RangeMsg(field) ==
    CASE field = "odds" -> "msg_odds_error"
      [] field = "win_rate" -> "msg_win_error"
      [] field = "price" -> "msg_price_error"
      [] field = "prob" -> "msg_prob_error"
      [] field = "capital" -> "msg_cap_error"

NonNumeric(line) == trim(line) # <<>> /\ ~parse(trim(line)).ok

IsQuit(rd) == rd.field \in {"odds", "price"} /\ to_lowercase(trim(rd.line)) = <<"q">>

\* C8: for every numeric field, non-numeric text at its prompt is rejected
\* with a reason distinct from that field's domain-range reject, the process
\* goes on, and the engine is not called with the text's value.
C8_ParseRejectDistinct ==
    (last.field # "" /\ NonNumeric(last.line) /\ ~IsQuit(last))
    => /\ out.msg # ""
       /\ out.msg # RangeMsg(last.field)
       /\ pc \notin {"done", "panicked"}
       /\ call.fn # "" => ~out.display.printed \/ out.display.section = ""

\* the arguments after the program name, without the flags
Operands(a) == SelectSeq(Tail(a), NotPmFlag)

\* C9: when the argument vector starts with the program name, each form of
\* the usage text reaches its mode: -p alone the Polymarket interactive
\* mode, -p with two or three numbers the Polymarket calculation on
\* price/100 and prob/100, no operand the fixed-odds interactive mode, two
\* or three numbers the fixed-odds calculation on odds and win_rate/100; the
\* language follows -z/--zh alone.
C9_UsageFormsReachMode ==
    ( /\ pc # "main"
      /\ args[1] = kelly
      /\ \A i \in 1..Len(Operands(args)) : parse(Operands(args)[i]).ok )
    => LET ops == Operands(args)
           pm == is_polymarket(Tail(args))
       IN  /\ lang = Language(Tail(args))
           /\ (pm /\ Len(ops) = 0) => mode = "interactive_polymarket"
           /\ (pm /\ Len(ops) \in {2, 3})
                => /\ mode = "cli_mode_polymarket"
                   /\ call = [fn |-> "kelly_polymarket",
                              a |-> Div(parse(ops[1]).v, Hundred),
                              b |-> Div(parse(ops[2]).v, Hundred)]
                   /\ Len(ops) = 2 => out.display.section = ""
           /\ (~pm /\ Len(ops) = 0) => mode = "interactive"
           /\ (~pm /\ Len(ops) \in {2, 3})
                => /\ mode = "cli_mode"
                   /\ call = [fn |-> "kelly_criterion",
                              a |-> parse(ops[1]).v,
                              b |-> Div(parse(ops[2]).v, Hundred)]
                   /\ Len(ops) = 2 => out.display.section = ""

\* the net odds b of the call, as a fraction of integers
NetNum(c) == IF c.fn = "kelly_criterion" THEN c.a.n - c.a.d ELSE c.a.d - c.a.n

NetDen(c) == IF c.fn = "kelly_criterion" THEN c.a.d ELSE c.a.n

\* C10: the engine does not clamp: optimal_fraction times the net odds is
\* the expected value whatever its sign, and odds 1.5 with win_rate 0.10 give
\* a negative optimal_fraction with positive_ev false; the display shows
\* exactly one of 'no bet' (optimal_fraction <= 0), '100%+' (> 1) or the
\* percentage (otherwise), and capital * fraction * 1, 0.5, 0.25 only when
\* optimal_fraction > 0.
C10_NoClampAndClassification ==
    call.fn # "" =>
       LET f == result.optimal_fraction
           ev == result.expected_value
           d == out.display
       IN  /\ (IsFinite(call.a) /\ IsFinite(call.b) /\ NetNum(call) # 0 /\ NetDen(call) # 0)
                => /\ IsFinite(f) /\ IsFinite(ev)
                   /\ f.n * NetNum(call) * ev.d = ev.n * f.d * NetDen(call)
           /\ (call.fn = "kelly_criterion" /\ call.a = Fin(3, 2) /\ call.b = Fin(1, 10))
                => f = Fin(-17, 10) /\ ~result.positive_ev
           /\ d.printed
           /\ d.position \in {"0% (No bet)", "100%+", "format_pct"}
           /\ d.position = "0% (No bet)" <=> (~IsNaN(f) /\ f.n <= 0)
           /\ d.position = "100%+" <=> (~IsNaN(f) /\ f.n > f.d)
           /\ d.section = "Full/Half/Quarter Kelly" <=> (d.section # "" /\ f.n > 0)
           /\ d.section = "Full/Half/Quarter Kelly"
                => /\ d.full = Mul(d.cap, f)
                   /\ d.half = Mul(d.full, Fin(1, 2))
                   /\ d.quarter = Mul(d.full, Fin(1, 4))
           /\ d.section # "Full/Half/Quarter Kelly"
                => d.full = Zero /\ d.half = Zero /\ d.quarter = Zero

C10_Witness ==
    /\ call = [fn |-> "kelly_criterion", a |-> Fin(3, 2), b |-> Fin(1, 10)]
    /\ result.optimal_fraction = Fin(-17, 10)
    /\ ~result.positive_ev
    /\ out.display.position = "0% (No bet)"
    /\ out.display.section = "Recommendation: No bet"

\* C11: whenever a result is printed the two verdicts agree: positive_ev
\* is true exactly when optimal_fraction > 0, so 'Positive EV' is never
\* printed with 'No bet' and 'Negative EV' is never printed with a positive
\* position size or with capital amounts.
C11_VerdictsAgree ==
    out.display.printed =>
       LET d == out.display
           pos == "Positive EV (Bet recommended)"
           neg == "Negative EV (Not recommended)"
       IN  /\ result.positive_ev <=> Gt(result.optimal_fraction, Zero)
           /\ ~(d.status = pos /\ d.position = "0% (No bet)")
           /\ ~(d.status = pos /\ d.section = "Recommendation: No bet")
           /\ ~(d.status = neg /\ d.position \in {"100%+", "format_pct"}
                  /\ Gt(result.optimal_fraction, Zero))
           /\ ~(d.status = neg /\ d.section = "Full/Half/Quarter Kelly")

\* the program positions inside the two interactive loops
LoopPcs == {"odds", "win_rate", "capital", "price", "prob", "pm_capital"}

\* the first prompt of the loop a position belongs to
FirstPrompt(p) == IF p \in {"odds", "win_rate", "capital"} THEN "odds" ELSE "price"

\* the prompt after a position's value is accepted
NextPrompt(p) ==
    CASE p = "odds" -> "win_rate"
      [] p = "win_rate" -> "capital"
      [] p = "price" -> "prob"
      [] p = "prob" -> "pm_capital"
      [] OTHER -> FirstPrompt(p)

\* the line is a single q or Q with nothing but whitespace around it
SaysQ(line) ==
    \E i \in 1..Len(line) :
        /\ line[i] \in {"q", "Q"}
        /\ \A j \in 1..Len(line) : j # i => IsWhitespace(line[j])

\* one step of an interactive loop, from the position pc to pc'
C12_Step ==
    pc \in LoopPcs =>
       /\ reads' = reads + 1
       /\ pc' \in LoopPcs \cup {"done"}
       /\ pc' = "done" <=> (pc = FirstPrompt(pc) /\ SaysQ(last'.line))
       /\ pc' = "done" => out'.msg = "msg_quit" /\ call'.fn = ""
       /\ (pc \in {"odds", "win_rate", "price", "prob"} /\ pc' # "done")
            => /\ call'.fn = "" /\ ~out'.display.printed
               /\ out'.msg # "" => pc' = FirstPrompt(pc)
               /\ out'.msg = "" => pc' = NextPrompt(pc)
       /\ (pc \in {"win_rate", "prob"} /\ SaysQ(last'.line))
            => out'.msg = "Invalid input" /\ pc' = FirstPrompt(pc)
       /\ pc \in {"capital", "pm_capital"}
            => /\ pc' = FirstPrompt(pc)
               /\ call'.fn # "" /\ out'.display.printed
               /\ SaysQ(last'.line)
                    => out'.msg = "msg_cap_error" /\ out'.display.section = ""
       /\ (last'.line = EndOfInput /\ pc \notin {"capital", "pm_capital"})
            => out'.msg = "Invalid input" /\ pc' = FirstPrompt(pc)

====
